---- MODULE Spec2Model ----
(***************************************************************************)
(* Model of src/main.js: the resource reclaimer performCleanup, the        *)
(* AROptimizer coordinator (isProcessing, errorCount) with its interval    *)
(* timers, heap sampler and arError listener, and the document/window      *)
(* lifecycle listeners.  The browser's event loop is modelled as one task  *)
(* at a time, each followed by its microtasks (promise reactions), and the *)
(* pending timeouts.  A timer callback runs no earlier than its delay      *)
(* after registration and never before a timer registered earlier with the *)
(* same delay, so there is one queue per delay; the order between timers   *)
(* of different delays depends on when they were set and is left open.     *)
(* The next tick of an interval waits for the timeouts its last tick set,  *)
(* which are all shorter than its period.                                  *)
(***************************************************************************)
EXTENDS Integers, Sequences, FiniteSets, TLC

VARIABLES
    isProcessing,   \* AROptimizer.isProcessing
    errorCount,     \* AROptimizer.errorCount
    hidden,         \* document.hidden
    video,          \* the <video> elements: paused, currentTime, src
    tracking,       \* the mindar-image-system: "running" or "stopped"
    env,            \* what the host exposes (fixed for a session)
    armed,          \* AROptimizer.initialize() has run
    timers,         \* pending setTimeout callbacks: a queue per kind
    microtasks,     \* pending promise reactions of the current task
    lastPass,       \* the performCleanup call made by the current task
    bursts,         \* history: arError events delivered
    decayFired,     \* history: some decay callback has run
    events,         \* history: host signals delivered (events, heap over the threshold)
    task,           \* history: the trigger signal the last task handled
    resets,         \* history: resets of errorCount to 0 (line 120)
    live            \* history: arErrors since the last reset whose decay has not run

vars == <<isProcessing, errorCount, hidden, video, tracking, env, armed,
          timers, microtasks, lastPass, bursts, decayFired, events,
          task, resets, live>>

----------------------------------------------------------------------------
(* Bounds of the model *)

NumVideos == 1
MaxEvents == 5

(* Program constants *)

LightPeriod == 120000
FullPeriod == 600000
HeapPeriod == 30000
DecayDelay == 300000
RestoreDelay == 100
StartDelay == 1000
ErrorThreshold == 3

Videos == 1..NumVideos

EmptySrc == ""

URI(v) == IF v = 1 THEN "vid1" ELSE IF v = 2 THEN "vid2" ELSE "vid3"

(* Host configurations: scene.renderer, a texture registry holding         *)
(* disposable textures, a GL context, window.gc, the mindar-image-system   *)
(* and performance.memory.  Without a renderer there is no registry and no *)
(* GL context to ask for.                                                  *)
Host(renderer, textures, gl, gc, ar, memory) ==
    [renderer |-> renderer, textures |-> textures, gl |-> gl, gc |-> gc,
     ar |-> ar, memory |-> memory]

Envs ==
    {Host(TRUE, TRUE, TRUE, TRUE, TRUE, TRUE),
     Host(TRUE, FALSE, TRUE, FALSE, TRUE, FALSE),
     Host(TRUE, TRUE, FALSE, TRUE, FALSE, TRUE),
     Host(FALSE, FALSE, FALSE, TRUE, TRUE, FALSE)}

(* The step of a pass at which the host throws, if that step is reached.   *)
Fails == {"none", "pause", "dispose", "unbind", "gc", "stop"}

(* Heap samples: <<usedJSHeapSize, jsHeapSizeLimit>> *)
Samples == {<<79, 100>>, <<80, 100>>, <<81, 100>>}

Max(a, b) == IF a > b THEN a ELSE b

----------------------------------------------------------------------------
(* performCleanup(fullCleanup), lines 2-73 *)

Eff(op, v) == [op |-> op, v |-> v]

Timer(kind, v, src, delay) ==
    [kind |-> kind, v |-> v, src |-> src, delay |-> delay, by |-> "event"]

CleanVideo_noReset(acc, v, fullCleanup, fail) ==
    IF acc.threw \/ acc.video[v].paused THEN acc
    ELSE IF fail = "pause"
    THEN [acc EXCEPT !.effects = Append(@, Eff("pause", v)), !.threw = TRUE]
    ELSE IF ~fullCleanup
    THEN [acc EXCEPT
            !.video[v].paused = TRUE,
            !.effects = @ \o <<Eff("pause", v)>>]
    ELSE [acc EXCEPT
            !.video[v].paused = TRUE,
            !.video[v].src = EmptySrc,
            !.sched = Append(@, Timer("restore", v, acc.video[v].src, RestoreDelay)),
            !.effects = @ \o <<Eff("pause", v), Eff("clear", v),
                               Eff("load", v), Eff("schedRestore", v)>>]

(* Lines 8-20 for one element: acc carries the elements, the timeouts      *)
(* registered, the effects issued so far and whether a call has thrown.    *)
CleanVideo(acc, v, fullCleanup, fail) ==
    IF acc.threw \/ acc.video[v].paused THEN acc
    ELSE IF fail = "pause"
    THEN [acc EXCEPT !.effects = Append(@, Eff("pause", v)), !.threw = TRUE]
    ELSE IF ~fullCleanup
    THEN [acc EXCEPT
            !.video[v].paused = TRUE,
            !.video[v].currentTime = 0,
            !.effects = @ \o <<Eff("pause", v), Eff("reset", v)>>]
    ELSE [acc EXCEPT
            !.video[v].paused = TRUE,
            !.video[v].currentTime = 0,
            !.video[v].src = EmptySrc,
            !.sched = Append(@, Timer("restore", v, acc.video[v].src, RestoreDelay)),
            !.effects = @ \o <<Eff("pause", v), Eff("reset", v), Eff("clear", v),
                               Eff("load", v), Eff("schedRestore", v)>>]

RECURSIVE CleanVideos(_, _, _, _)
CleanVideos(acc, v, fullCleanup, fail) ==
    IF v > NumVideos THEN acc
    ELSE CleanVideos(CleanVideo(acc, v, fullCleanup, fail), v + 1, fullCleanup, fail)

(* Lines 27-34: dispose every registered texture. *)
CleanTextures(acc, e, fail) ==
    IF acc.threw \/ ~e.textures THEN acc
    ELSE IF fail = "dispose"
    THEN [acc EXCEPT !.effects = Append(@, Eff("dispose", 0)), !.threw = TRUE]
    ELSE [acc EXCEPT !.effects = Append(@, Eff("dispose", 0))]

(* Lines 37-49: unbind texture units, buffers, renderbuffer, framebuffer. *)
CleanBuffers(acc, e, fail) ==
    IF acc.threw \/ ~e.gl THEN acc
    ELSE IF fail = "unbind"
    THEN [acc EXCEPT !.effects = Append(@, Eff("unbind", 0)), !.threw = TRUE]
    ELSE [acc EXCEPT !.effects = Append(@, Eff("unbind", 0))]

(* Lines 51-57: the GC hint, inside try/catch. *)
HintGC(acc, e, fail) ==
    IF acc.threw \/ ~e.gc THEN acc
    ELSE [acc EXCEPT !.effects = Append(@, Eff("gc", 0))]

(* Lines 23-58: everything that needs scene.renderer. *)
CleanRenderer(acc, e, fail) ==
    IF acc.threw \/ ~e.renderer THEN acc
    ELSE HintGC(CleanBuffers(CleanTextures(acc, e, fail), e, fail), e, fail)

RestartAR_anyLevel(acc, e, fullCleanup, fail) ==
    IF acc.threw \/ ~e.ar THEN acc
    ELSE [acc EXCEPT
            !.tracking = "stopped",
            !.sched = Append(@, Timer("start", 0, EmptySrc, StartDelay)),
            !.effects = @ \o <<Eff("stop", 0), Eff("schedStart", 0)>>]

(* Lines 61-70: stop the AR system and schedule its start; a throw of      *)
(* stop() is caught and skips the setTimeout.                              *)
RestartAR(acc, e, fullCleanup, fail) ==
    IF acc.threw \/ ~fullCleanup \/ ~e.ar THEN acc
    ELSE IF fail = "stop"
    THEN [acc EXCEPT !.effects = Append(@, Eff("stop", 0))]
    ELSE [acc EXCEPT
            !.tracking = "stopped",
            !.sched = Append(@, Timer("start", 0, EmptySrc, StartDelay)),
            !.effects = @ \o <<Eff("stop", 0), Eff("schedStart", 0)>>]

performCleanup_stopFirst(vs, tr, e, fullCleanup, fail) ==
    LET a0 == [video |-> vs, tracking |-> tr, sched |-> <<>>,
               effects |-> <<>>, threw |-> FALSE]
        a1 == CleanVideos(a0, 1, fullCleanup, fail)
        a2 == RestartAR(a1, e, fullCleanup, fail)
    IN  CleanRenderer(a2, e, fail)

performCleanup(vs, tr, e, fullCleanup, fail) ==
    LET a0 == [video |-> vs, tracking |-> tr, sched |-> <<>>,
               effects |-> <<>>, threw |-> FALSE]
        a1 == CleanVideos(a0, 1, fullCleanup, fail)
        a2 == CleanRenderer(a1, e, fail)
    IN  RestartAR(a2, e, fullCleanup, fail)

----------------------------------------------------------------------------
(* State *)

NoPass == [ran |-> FALSE, full |-> FALSE, threw |-> FALSE, gc |-> FALSE]

Pass(fullCleanup, r) ==
    [ran |-> TRUE, full |-> fullCleanup, threw |-> r.threw,
     gc |-> \E i \in 1..Len(r.effects) : r.effects[i].op = "gc"]

(* The timeouts a task registered, marked with the interval timer that set *)
(* them, or "event" when a listener did.                                   *)
SetBy(trigger, sched) ==
    LET by == IF trigger \in {"light", "full", "heap"} THEN trigger ELSE "event"
    IN  [i \in 1..Len(sched) |-> [sched[i] EXCEPT !.by = by]]

Kinds == {"restore", "start", "decay"}

NoTimers == [k \in Kinds |-> <<>>]

(* setTimeout for each callback of `sched`, in order. *)
Register(ts, sched) ==
    [k \in Kinds |-> ts[k] \o SelectSeq(sched, LAMBDA t : t.kind = k)]

Init ==
    /\ env \in Envs
    \* DOMContentLoaded, lines 228-241: scene.renderer.setClearColor throws
    \* before AROptimizer.initialize() when there is no renderer.
    /\ armed = env.renderer
    /\ isProcessing = FALSE
    /\ errorCount = 0
    /\ hidden = FALSE
    /\ video = [v \in Videos |-> [paused |-> TRUE, currentTime |-> 0, src |-> URI(v)]]
    /\ tracking = "running"
    /\ timers = NoTimers
    /\ microtasks = <<>>
    /\ lastPass = NoPass
    /\ bursts = 0
    /\ decayFired = FALSE
    /\ events = 0
    /\ task = "none"
    /\ resets = 0
    /\ live = 0

----------------------------------------------------------------------------
(* Helpers of the handlers *)

fullOnError_atThreshold(count) == count >= ErrorThreshold

(* Line 118: the level an arError selects from the incremented count. *)
fullOnError(count) == count > ErrorThreshold

decay_noFloor(count) == count - 1

(* Line 126: the decay of errorCount. *)
decay(count) == Max(0, count - 1)

heapOver_inclusive(used, limit) == used * 10 >= limit * 8

(* Line 135: usedJSHeapSize > jsHeapSizeLimit * 0.8, on integers. *)
heapOver(used, limit) == used * 10 > limit * 8

timerGuard_ignoresHidden(h, p) == ~p

(* Lines 90 and 101: the guard of the two interval timers. *)
timerGuard(h, p) == ~h /\ ~p

(* Line 136: the guard of the heap sampler. *)
heapGuard(p) == ~p

(* Lines 92-95, 103-106, 138-141: performCleanup(..).finally(..) registers *)
(* the reaction only when performCleanup returned a promise.               *)
finallyReaction(r) == IF r.threw THEN <<>> ELSE <<[kind |-> "finally", full |-> FALSE]>>

awaitReaction_levelLost(r, fullCleanup) ==
    IF r.threw THEN <<>> ELSE <<[kind |-> "resume", full |-> FALSE]>>

(* Lines 119-123: await performCleanup(..) resumes the listener only when  *)
(* performCleanup returned; a throw rejects the async function there.      *)
awaitReaction(r, fullCleanup) ==
    IF r.threw THEN <<>> ELSE <<[kind |-> "resume", full |-> fullCleanup]>>

Idle == microtasks = <<>>

(* A timeout of this kind may run: the one registered first. *)
Due(kind) == timers[kind] # <<>>

Fired(kind) == [timers EXCEPT ![kind] = Tail(@)]

(* One call of performCleanup by the running task. *)
Cleanup(trigger, fullCleanup, r) ==
    /\ video' = r.video
    /\ tracking' = r.tracking
    /\ timers' = Register(timers, SetBy(trigger, r.sched))
    /\ lastPass' = Pass(fullCleanup, r)

(* The setInterval timer `kind` may tick: the timeouts its last tick set   *)
(* that are no longer than its period have run.                            *)
Tick(kind, period) ==
    /\ armed
    /\ kind = "heap" => env.memory
    /\ \A k \in Kinds : \A i \in 1..Len(timers[k]) :
         timers[k][i].by = kind => timers[k][i].delay > period

----------------------------------------------------------------------------
(* AROptimizer.setupAutoCleanup, lines 87-109 *)

IntervalCleanup_light(trigger, fullCleanup) ==
    \E fail \in Fails :
      LET r == performCleanup(video, tracking, env, FALSE, fail) IN
      /\ isProcessing' = TRUE
      /\ Cleanup(trigger, FALSE, r)
      /\ microtasks' = finallyReaction(r)

IntervalCleanup(trigger, fullCleanup) ==
    \E fail \in Fails :
      LET r == performCleanup(video, tracking, env, fullCleanup, fail) IN
      /\ isProcessing' = TRUE
      /\ Cleanup(trigger, fullCleanup, r)
      /\ microtasks' = finallyReaction(r)

IntervalSkip ==
    /\ lastPass' = NoPass
    /\ UNCHANGED <<isProcessing, video, tracking, timers, microtasks>>

LightTimer ==
    /\ Idle
    /\ Tick("light", LightPeriod)
    /\ IF timerGuard(hidden, isProcessing)
       THEN IntervalCleanup("light", FALSE)
       ELSE IntervalSkip
    /\ task' = "light"
    /\ UNCHANGED <<errorCount, hidden, env, armed, bursts, decayFired, events,
                   resets, live>>

FullTimer ==
    /\ Idle
    /\ Tick("full", FullPeriod)
    /\ IF timerGuard(hidden, isProcessing)
       THEN IntervalCleanup("full", TRUE)
       ELSE IntervalSkip
    /\ task' = "full"
    /\ UNCHANGED <<errorCount, hidden, env, armed, bursts, decayFired, events,
                   resets, live>>

(* The .finally callbacks, lines 93-95, 104-106, 139-141. *)
FinallyHandler ==
    /\ microtasks # <<>>
    /\ Head(microtasks).kind = "finally"
    /\ microtasks' = Tail(microtasks)
    /\ isProcessing' = FALSE
    /\ UNCHANGED <<errorCount, hidden, video, tracking, env, armed, timers,
                   lastPass, bursts, decayFired, events,
                   task, resets, live>>

----------------------------------------------------------------------------
(* AROptimizer.setupErrorHandling, lines 111-129 *)

ArError ==
    /\ Idle
    /\ armed
    /\ events < MaxEvents
    /\ events' = events + 1
    /\ bursts' = bursts + 1
    /\ errorCount' = errorCount + 1
    /\ \E fail \in Fails :
         LET fullCleanup == fullOnError(errorCount + 1)
             r == performCleanup(video, tracking, env, fullCleanup, fail) IN
         /\ Cleanup("arError", fullCleanup, r)
         /\ microtasks' = awaitReaction(r, fullCleanup)
    /\ task' = "arError"
    /\ live' = live + 1
    /\ UNCHANGED <<isProcessing, hidden, env, armed, decayFired,
                   resets>>

(* The listener after its await: lines 120 and 125-127. *)
ArErrorResume ==
    /\ microtasks # <<>>
    /\ Head(microtasks).kind = "resume"
    /\ microtasks' = Tail(microtasks)
    /\ errorCount' = IF Head(microtasks).full THEN 0 ELSE errorCount
    \* the timeout carries, as history, the reset epoch of its arError
    /\ timers' = Register(timers, <<Timer("decay", resets, EmptySrc, DecayDelay)>>)
    /\ resets' = IF Head(microtasks).full THEN resets + 1 ELSE resets
    /\ live' = IF Head(microtasks).full THEN 0 ELSE live
    /\ UNCHANGED <<isProcessing, hidden, video, tracking, env, armed,
                   lastPass, bursts, decayFired, events,
                   task>>

(* The timeout of lines 125-127. *)
DecayTimeout ==
    /\ Idle
    /\ Due("decay")
    /\ timers' = Fired("decay")
    /\ errorCount' = decay(errorCount)
    /\ decayFired' = TRUE
    /\ lastPass' = NoPass
    /\ task' = "none"
    /\ live' = IF Head(timers["decay"]).v = resets THEN live - 1 ELSE live
    /\ UNCHANGED <<isProcessing, hidden, video, tracking, env, armed,
                   microtasks, bursts, events,
                   resets>>

----------------------------------------------------------------------------
(* AROptimizer.setupMemoryMonitoring, lines 131-146 *)

(* One tick of the sampler reading used/limit. *)
HeapSampleOf(used, limit) ==
    /\ Idle
    /\ Tick("heap", HeapPeriod)
    /\ IF heapOver(used, limit)
       THEN /\ events < MaxEvents
            /\ events' = events + 1
            /\ IF heapGuard(isProcessing)
               THEN IntervalCleanup("heap", TRUE)
               ELSE IntervalSkip
       ELSE /\ events' = events
            /\ IntervalSkip
    /\ task' = "heap"
    /\ UNCHANGED <<errorCount, hidden, env, armed, bursts, decayFired,
                   resets, live>>

HeapSample == \E s \in Samples : HeapSampleOf(s[1], s[2])

----------------------------------------------------------------------------
(* The timeouts of performCleanup, lines 17 and 64-66 *)

RestoreTimeout ==
    /\ Idle
    /\ Due("restore")
    /\ LET t == Head(timers["restore"]) IN
         video' = [video EXCEPT ![t.v].src = t.src]
    /\ timers' = Fired("restore")
    /\ lastPass' = NoPass
    /\ task' = "none"
    /\ UNCHANGED <<isProcessing, errorCount, hidden, tracking, env, armed,
                   microtasks, bursts, decayFired, events,
                   resets, live>>

StartTimeout ==
    /\ Idle
    /\ Due("start")
    /\ timers' = Fired("start")
    /\ tracking' = "running"
    /\ lastPass' = NoPass
    /\ task' = "none"
    /\ UNCHANGED <<isProcessing, errorCount, hidden, video, env, armed,
                   microtasks, bursts, decayFired, events,
                   resets, live>>

----------------------------------------------------------------------------
(* Lifecycle listeners, lines 271-280 *)

VisibilityChange ==
    /\ Idle
    /\ events < MaxEvents
    /\ events' = events + 1
    /\ hidden' = ~hidden
    /\ IF hidden'
       THEN \E fail \in Fails :
              Cleanup("hidden", TRUE,
                      performCleanup(video, tracking, env, TRUE, fail))
       ELSE /\ lastPass' = NoPass
            /\ UNCHANGED <<video, tracking, timers>>
    /\ task' = IF hidden' THEN "hidden" ELSE "visible"
    /\ UNCHANGED <<isProcessing, errorCount, env, armed, microtasks,
                   bursts, decayFired,
                   resets, live>>

BeforeUnload ==
    /\ Idle
    /\ events < MaxEvents
    /\ events' = events + 1
    /\ \E fail \in Fails :
         Cleanup("beforeunload", TRUE,
                 performCleanup(video, tracking, env, TRUE, fail))
    /\ task' = "beforeunload"
    /\ UNCHANGED <<isProcessing, errorCount, hidden, env, armed,
                   microtasks, bursts, decayFired,
                   resets, live>>

PageHide ==
    /\ Idle
    /\ events < MaxEvents
    /\ events' = events + 1
    /\ \E fail \in Fails :
         Cleanup("pagehide", TRUE,
                 performCleanup(video, tracking, env, TRUE, fail))
    /\ task' = "pagehide"
    /\ UNCHANGED <<isProcessing, errorCount, hidden, env, armed,
                   microtasks, bursts, decayFired,
                   resets, live>>

----------------------------------------------------------------------------
(* video-material component, lines 210-224: playback of #vid1 *)

TargetFound ==
    /\ Idle
    /\ events < MaxEvents
    /\ events' = events + 1
    /\ video[1].paused
    \* video.play(): the element plays, or, while its source is cleared,
    \* the promise may reject (caught at line 214) and it stays paused
    /\ \/ video' = [video EXCEPT ![1].paused = FALSE]
       \/ video[1].src = EmptySrc /\ video' = video
    /\ lastPass' = NoPass
    /\ task' = "none"
    /\ UNCHANGED <<isProcessing, errorCount, hidden, tracking, env, armed, timers,
                   microtasks, bursts, decayFired,
                   resets, live>>

TargetLost ==
    /\ Idle
    /\ events < MaxEvents
    /\ events' = events + 1
    /\ ~video[1].paused
    /\ video' = [video EXCEPT ![1].paused = TRUE]
    /\ lastPass' = NoPass
    /\ task' = "none"
    /\ UNCHANGED <<isProcessing, errorCount, hidden, tracking, env, armed, timers,
                   microtasks, bursts, decayFired,
                   resets, live>>

(* Playback of an element that is playing and has a source moves its       *)
(* position off 0.                                                         *)
Playback ==
    /\ Idle
    /\ \E v \in Videos :
         /\ ~video[v].paused
         /\ video[v].src # EmptySrc
         /\ video[v].currentTime = 0
         /\ video' = [video EXCEPT ![v].currentTime = 1]
    /\ lastPass' = NoPass
    /\ task' = "none"
    /\ UNCHANGED <<isProcessing, errorCount, hidden, tracking, env, armed, timers,
                   microtasks, bursts, decayFired, events,
                   resets, live>>

Next ==
    \/ LightTimer
    \/ FullTimer
    \/ FinallyHandler
    \/ ArError
    \/ ArErrorResume
    \/ DecayTimeout
    \/ HeapSample
    \/ RestoreTimeout
    \/ StartTimeout
    \/ VisibilityChange
    \/ BeforeUnload
    \/ PageHide
    \/ TargetFound
    \/ TargetLost
    \/ Playback

Spec == Init /\ [][Next]_vars

----------------------------------------------------------------------------
(* Properties *)

(* A task step that calls performCleanup. *)
StartsPass == Idle /\ lastPass'.ran

(* A pass has started and its completion handler has not run: the guard is *)
(* still set, or the reaction of the pass is still queued.                 *)
InFlight == isProcessing \/ microtasks # <<>>

(* A trigger signal is delivered. *)
Request ==
    \/ LightTimer
    \/ FullTimer
    \/ HeapSample /\ events' # events
    \/ ArError
    \/ VisibilityChange /\ hidden'
    \/ BeforeUnload
    \/ PageHide

(* C1: at most one pass is in flight: no performCleanup call starts        *)
(* between the start of a pass and the run of its completion handler.      *)
C1_OnePassInFlight == [][InFlight => ~StartsPass]_vars

(* C2: a request that arrives while isProcessing is true is dropped,       *)
(* whatever its signal: performCleanup is not called and no restore or     *)
(* start timeout is set.                                                   *)
C2_DroppedWhileProcessing ==
    [][(isProcessing /\ Request) =>
         /\ ~lastPass'.ran
         /\ timers'["restore"] = timers["restore"]
         /\ timers'["start"] = timers["start"]]_vars

(* C3: the guard is cleared on every exit path of a pass: whenever         *)
(* isProcessing is set, the handler that clears it is still to run.        *)
C3_GuardNeverStuck == isProcessing => microtasks # <<>>

(* C4: a dispatched arError whose pre-increment count is 3 runs a Full     *)
(* pass and leaves errorCount 0 once the pass has completed; a             *)
(* pre-increment count of 0, 1 or 2 runs a Light pass and leaves the       *)
(* incremented count.                                                      *)
C4_ErrorBurstLevel ==
    [][/\ ArError =>
            /\ lastPass'.ran
            /\ errorCount = 3 => lastPass'.full
            /\ errorCount \in 0..2 => ~lastPass'.full /\ errorCount' = errorCount + 1
       /\ ArErrorResume =>
            /\ errorCount - 1 = 3 => lastPass.full /\ errorCount' = 0
            /\ errorCount - 1 \in 0..2 => ~lastPass.full /\ errorCount' = errorCount
      ]_vars

(* Four arErrors with no decay in between: the fourth pass is Full and has *)
(* completed with errorCount 0.                                            *)
C4_Witness ==
    /\ bursts = 4
    /\ ~decayFired
    /\ Len(timers["decay"]) = 4
    /\ Idle
    /\ lastPass.ran /\ lastPass.full /\ ~lastPass.threw
    /\ errorCount = 0

(* C5: errorCount is an integer >= 0 in every state, and each decay lowers *)
(* it by at most 1 and never below 0.                                      *)
C5_ErrorCountFloor ==
    /\ [](errorCount \in Nat)
    /\ [][DecayTimeout =>
            /\ errorCount' >= 0
            /\ errorCount' <= errorCount
            /\ errorCount' >= errorCount - 1]_vars

(* Decays have run after the fourth arError reset errorCount to 0, and     *)
(* more are pending.                                                       *)
C5_Witness ==
    /\ bursts = 4
    /\ errorCount = 0
    /\ decayFired
    /\ timers["decay"] # <<>>

(* C6 as claimed: after N arErrors with no decay fired, errorCount = N.    *)
C6_CountEqualsBursts == ~decayFired => errorCount = bursts

(* C6 amended: after N arErrors with no decay fired, errorCount = N for    *)
(* N up to 3.                                                              *)
C6_CountEqualsBurstsUpTo3 ==
    (~decayFired /\ bursts <= ErrorThreshold) => errorCount = bursts

C6_Witness == ~decayFired /\ bursts = 3 /\ errorCount = 3 /\ Idle

(* C7: a Full pass on a host with a tracking subsystem always has start()  *)
(* called after it: the pass leaves the start timeout set.                 *)
C7_FullPassRestarts ==
    (lastPass.ran /\ lastPass.full /\ env.ar) => timers["start"] # <<>>

(* C8: a failing step does not abort the steps after it: a Full pass in   *)
(* which a media, dispose or unbind call throws still stops the tracking   *)
(* subsystem and sets the timeout that starts it.                          *)
C8_FailureDoesNotAbort ==
    [][(StartsPass /\ lastPass'.full /\ lastPass'.threw /\ env.ar) =>
         /\ tracking' = "stopped"
         /\ Len(timers'["start"]) = Len(timers["start"]) + 1]_vars

(* The place of an effect in the order of a pass. *)
Rank(op) ==
    CASE op = "pause" -> 1
      [] op = "reset" -> 2
      [] op = "clear" -> 3
      [] op = "load" -> 4
      [] op = "schedRestore" -> 5
      [] op = "dispose" -> 6
      [] op = "unbind" -> 7
      [] op = "gc" -> 8
      [] op = "stop" -> 9
      [] op = "schedStart" -> 10

Media == {"pause", "reset", "clear", "load", "schedRestore"}

(* Effects of one element follow each other in rank order, every media     *)
(* effect precedes every other effect, and the others are in rank order.   *)
InOrder(effects) ==
    \A i, j \in 1..Len(effects) :
        i < j =>
            LET a == effects[i]
                b == effects[j]
            IN  /\ (a.op \in Media /\ b.op \in Media /\ a.v = b.v) => Rank(a.op) < Rank(b.op)
                /\ b.op \in Media => a.op \in Media
                /\ (a.op \notin Media /\ b.op \notin Media) => Rank(a.op) < Rank(b.op)

(* The effects of a Full pass that nothing fails or skips. *)
EveryEffect(r, vs) ==
    LET ops(v) == {r.effects[i].op : i \in {k \in 1..Len(r.effects) : r.effects[k].v = v}}
    IN  /\ \A v \in Videos : ~vs[v].paused => ops(v) = Media
        /\ ops(0) = {"dispose", "unbind", "gc", "stop", "schedStart"}

AllTimers == UNION {{timers[k][i] : i \in 1..Len(timers[k])} : k \in Kinds}

(* C9: a Full pass issues pause and reset, source clear, texture dispose,  *)
(* unbind, GC hint and tracking stop in this order; the restore is set     *)
(* after the clear with a delay of at least 100 ms and the start after the *)
(* stop with a delay of at least 1000 ms, and they run from these timeouts *)
(* only.                                                                   *)
C9_FullPassOrder ==
    /\ \A fail \in Fails :
         LET r == performCleanup(video, tracking, env, TRUE, fail) IN
         /\ InOrder(r.effects)
         /\ \A i \in 1..Len(r.sched) :
              /\ r.sched[i].kind = "restore" => r.sched[i].delay >= 100
              /\ r.sched[i].kind = "start" => r.sched[i].delay >= 1000
         /\ (fail = "none" /\ env.textures /\ env.gl /\ env.gc /\ env.ar)
              => EveryEffect(r, video)
    /\ \A t \in AllTimers :
         /\ t.kind = "restore" => t.delay >= 100
         /\ t.kind = "start" => t.delay >= 1000

(* A Full pass has cleared the source of a playing element and stopped the *)
(* tracking; both timeouts are pending.                                    *)
C9_Witness ==
    /\ lastPass.ran /\ lastPass.full /\ ~lastPass.threw
    /\ env.textures /\ env.gl /\ env.gc /\ env.ar
    /\ video[1].src = EmptySrc
    /\ timers["restore"] # <<>>
    /\ timers["start"] # <<>>
    /\ tracking = "stopped"

(* C10: a heap sample starts a Full pass exactly when used > 0.8 * limit   *)
(* and isProcessing is false; a sample at or under the threshold calls     *)
(* nothing and leaves isProcessing and errorCount as they were.            *)
C10_HeapSample ==
    [][\A s \in Samples :
         HeapSampleOf(s[1], s[2]) =>
            IF 5 * s[1] > 4 * s[2] /\ ~isProcessing
            THEN lastPass'.ran /\ lastPass'.full /\ isProcessing'
            ELSE /\ ~lastPass'.ran
                 /\ UNCHANGED <<isProcessing, errorCount, video, tracking, timers>>
      ]_vars

(* The heap sampler has started a Full pass: its start timeout is pending. *)
C10_Witness ==
    /\ lastPass.ran /\ lastPass.full
    /\ isProcessing
    /\ \E i \in 1..Len(timers["start"]) : timers["start"][i].by = "heap"

(* C11: a tick of the 120 s or the 600 s timer while the document is       *)
(* hidden calls nothing: isProcessing, errorCount, the media elements, the *)
(* tracking subsystem and the pending timeouts stay as they were.          *)
C11_HiddenTickSuppressed ==
    [][((LightTimer \/ FullTimer) /\ hidden) =>
         /\ ~lastPass'.ran
         /\ UNCHANGED <<isProcessing, errorCount, video, tracking, timers,
                        microtasks>>]_vars

(* An interval timer has ticked with the document hidden and the guard     *)
(* clear, and no pass ran.                                                 *)
C11_Witness ==
    /\ task \in {"light", "full"}
    /\ hidden
    /\ ~isProcessing
    /\ ~lastPass.ran

(* C12: the level of an accepted request follows from its trigger: Light   *)
(* for the 120 s timer; Full for the 600 s timer, a heap sample over the   *)
(* threshold, the tab becoming hidden, beforeunload and pagehide.          *)
C12_LevelByTrigger ==
    [][Idle =>
         /\ (task' = "light" /\ lastPass'.ran) => ~lastPass'.full
         /\ (task' \in {"full", "heap"} /\ lastPass'.ran) => lastPass'.full
         /\ task' \in {"hidden", "beforeunload", "pagehide"} =>
              (lastPass'.ran /\ lastPass'.full)
      ]_vars

(* The 120 s timer has run a Light pass although errorCount stands at the  *)
(* threshold.                                                              *)
C12_Witness ==
    /\ task = "light"
    /\ lastPass.ran
    /\ ~lastPass.full
    /\ errorCount = ErrorThreshold

(* C13: every arError schedules one decay of errorCount, whether its pass  *)
(* succeeds or fails: while no decay has run, as many decays are pending   *)
(* as arErrors have been handled.                                          *)
C13_EveryBurstDecays ==
    (Idle /\ ~decayFired) => Len(timers["decay"]) = bursts

(* C14: every trigger that starts a pass sets isProcessing before it calls *)
(* performCleanup: the guard is set in the state a starting pass leaves.   *)
C14_GuardSetByEveryPass == [][StartsPass => isProcessing']_vars

(* C15: a Light pass sets no timeout, leaves the tracking subsystem and    *)
(* every source URI as they are, and issues no clear, load, stop or start. *)
C15_LightPassFrame ==
    /\ [](\A fail \in Fails :
            LET r == performCleanup(video, tracking, env, FALSE, fail) IN
            /\ r.sched = <<>>
            /\ r.tracking = tracking
            /\ \A v \in Videos : r.video[v].src = video[v].src
            /\ \A i \in 1..Len(r.effects) :
                 r.effects[i].op \notin {"clear", "load", "schedRestore",
                                         "stop", "schedStart"})
    /\ [][(StartsPass /\ ~lastPass'.full) =>
            /\ tracking' = tracking
            /\ timers' = timers
            /\ \A v \in Videos : video'[v].src = video[v].src]_vars

(* A Light pass has run to its end on a host with a tracking subsystem:    *)
(* the tracking runs, no restore or start is pending, the source is there. *)
C15_Witness ==
    /\ lastPass.ran /\ ~lastPass.full /\ ~lastPass.threw /\ lastPass.gc
    /\ env.ar
    /\ tracking = "running"
    /\ timers["restore"] = <<>> /\ timers["start"] = <<>>
    /\ video[1].paused /\ video[1].currentTime = 0 /\ video[1].src = URI(1)

(* C16: a pass in which no step throws issues the GC hint whenever the     *)
(* host exposes window.gc, with or without a renderer.                     *)
C16_HintWheneverExposed ==
    [][(StartsPass /\ env.gc /\ ~lastPass'.threw) => lastPass'.gc]_vars

(* C17: when a pass completes no element is playing, every element that    *)
(* was playing is at position 0, and every element that was paused is as   *)
(* it was.                                                                 *)
C17_MediaAfterPass ==
    [][(StartsPass /\ ~lastPass'.threw) =>
         \A v \in Videos :
            /\ video'[v].paused
            /\ ~video[v].paused => video'[v].currentTime = 0
            /\ video[v].paused => video'[v] = video[v]]_vars

(* The 600 s timer has run a Full pass to its end on an element that was   *)
(* playing: the restore of its source, set by this tick, is pending, and   *)
(* the element is paused at position 0.                                    *)
C17_Witness ==
    /\ task = "full"
    /\ lastPass.ran /\ lastPass.full /\ ~lastPass.threw
    /\ \E i \in 1..Len(timers["restore"]) :
         /\ timers["restore"][i].by = "full"
         /\ timers["restore"][i].v = 1
         /\ timers["restore"][i].src = URI(1)
    /\ video[1].paused
    /\ video[1].currentTime = 0

(* C18: once every pending restore has run, each element has the source   *)
(* it started with, and no pending restore writes back the empty source.   *)
C18_SourceRoundTrip ==
    /\ timers["restore"] = <<>> => \A v \in Videos : video[v].src = URI(v)
    /\ \A i \in 1..Len(timers["restore"]) : timers["restore"][i].src # EmptySrc

(* C19: stop() is not called while the start() of an earlier Full pass is  *)
(* pending: at most one start timeout is pending at a time.                *)
C19_StopStartAlternate == Len(timers["start"]) <= 1

(* C20: errorCount is the number of arErrors since the last reset whose    *)
(* own decay has not run.                                                  *)
C20_CountsLiveBursts == errorCount = live

====
